---- MODULE Spec2Model ----
(***************************************************************************)
(* A model of scraper.py: the timetable scraper's layout reconstruction    *)
(* (cluster_positions, find_day_zones, get_global_x_bounds,                *)
(* get_y_bounds_for_crop, cell_text_from_chars, detect_header_row,         *)
(* extract_header_note, parse_day_block, parse_pdf) and its entry point    *)
(* main.                                                                   *)
(*                                                                         *)
(* Coordinates are integers in units of 1/20 of a page unit, so that the   *)
(* code's 1.5, 1.0, 1.4, 0.35 and 0.2 are integers.  A mean of a cluster   *)
(* is an exact rational <<numerator, denominator>>.                        *)
(*                                                                         *)
(* A text is a sequence of characters, each a one-atom string.             *)
(***************************************************************************)
EXTENDS Integers, Sequences, FiniteSets, TLC

VARIABLES
  \* cluster_positions, run step by step on its own
  c_pc, values, tol, clusters, c_i, c_out,
  \* main: the place in the program, found.items() still to visit, the kind
  \* being visited, timetable.json, and main's locals
  pc, found, kind, output_file, old, changed_any, schedule_all, day_notes_all,
  sources_out, new_schedule, new_notes, tmp_files,
  \* what main did: the writes of timetable.json, the calls of notify_worker,
  \* the requests posted; file0 is timetable.json as main found it
  writes, notify_calls, posts, file0,
  \* parse_pdf: the page, its locals, and the boxes it cropped, the result of
  \* each zone (crops and zone_results record what happened)
  page, expected_classes, x_bounds, zones, z_i, final_schedule, final_notes,
  crops, zone_results, merge_offers,
  \* parse_day_block: its locals, and the entries offered to each class's list
  y_bounds, grid, header_r, col_to_class, day_notes, day_schedule, b_r, offers,
  \* detect_header_row, run step by step on its own
  h_pc, h_grid, h_expected, h_r, best_r, best_score, h_out,
  \* the merges of parse_pdf and of main, run on their own over partial results
  \* taken in any order: the level of the merge, the partial results, those
  \* not merged yet, the order taken, and the merged schedule and notes
  m_pc, m_level, partials, m_left, m_order, m_schedule, m_notes

clusterVars == <<c_pc, values, tol, clusters, c_i, c_out>>
mainVars == <<pc, found, kind, output_file, old, changed_any, schedule_all, day_notes_all,
              sources_out, new_schedule, new_notes, tmp_files, writes, notify_calls, posts, file0>>
pdfVars == <<page, expected_classes, x_bounds, zones, z_i, final_schedule, final_notes,
             crops, zone_results, merge_offers>>
blockVars == <<y_bounds, grid, header_r, col_to_class, day_notes, day_schedule, b_r, offers>>
headerVars == <<h_pc, h_grid, h_expected, h_r, best_r, best_score, h_out>>
mergeVars == <<m_pc, m_level, partials, m_left, m_order, m_schedule, m_notes>>
unitVars == <<clusterVars, headerVars, mergeVars>>
programVars == <<mainVars, pdfVars, blockVars>>
vars == <<unitVars, programVars>>

(***************************************************************************)
(* Bounds of the model                                                     *)
(***************************************************************************)
MaxLen == 4
MaxCoord == 4
MaxTol == 2

(***************************************************************************)
(* Exact rationals <<n, d>>, d > 0                                         *)
(***************************************************************************)
Rat(n) == <<n, 1>>
RLt(a, b) == a[1] * b[2] < b[1] * a[2]
RLe(a, b) == a[1] * b[2] <= b[1] * a[2]
RSub(a, b) == <<a[1] * b[2] - b[1] * a[2], a[2] * b[2]>>
RAddInt(a, k) == <<a[1] + k * a[2], a[2]>>
RAbs(a) == IF a[1] < 0 THEN <<0 - a[1], a[2]>> ELSE a

RECURSIVE SumSeq(_)
SumSeq(s) == IF s = <<>> THEN 0 ELSE Head(s) + SumSeq(Tail(s))

\* a Python list: the elements of a finite sequence f, as a tuple
List(f) == IF DOMAIN f = {} THEN <<>> ELSE <<>> \o f

Last(s) == s[Len(s)]
Range(s) == {s[k] : k \in 1..Len(s)}

\* the sequences over S of length at most n
RECURSIVE SeqsUpTo(_, _)
SeqsUpTo(S, n) ==
  IF n = 0 THEN {<<>>}
  ELSE LET shorter == SeqsUpTo(S, n - 1)
       IN shorter \cup {Append(s, x) : s \in {q \in shorter : Len(q) = n - 1}, x \in S}

Min1(S) == CHOOSE k \in S : \A j \in S : k <= j

\* the members of a set of integers in increasing order
SetToSeq(S) == LET n == Cardinality(S)
               IN List([i \in 1..n |-> CHOOSE x \in S : Cardinality({y \in S : y <= x}) = i])

\* A stable sort: each element goes to the place its rank gives it, the rank
\* counting the elements before it in the order and the equal ones left of it;
\* before holds the pairs <<j, k>> of indices with s[j] before s[k] in the order
StableSort(s, before) ==
  IF s = <<>> THEN <<>> ELSE
  LET n == Len(s)
      rank == List([k \in 1..n |->
                      Cardinality({j \in 1..n : <<j, k>> \in before
                                                \/ (<<k, j>> \notin before /\ j <= k)})])
  IN List([i \in 1..n |-> s[CHOOSE k \in 1..n : rank[k] = i]])

\* sorted() of integers
Sorted(s) == StableSort(s, {p \in (DOMAIN s) \X (DOMAIN s) : s[p[1]] < s[p[2]]})

\* sorted() of rationals
SortedR(s) == StableSort(s, {p \in (DOMAIN s) \X (DOMAIN s) : RLt(s[p[1]], s[p[2]])})

(***************************************************************************)
(* Characters and texts                                                    *)
(***************************************************************************)
EnDash == "endash"
Digits == {"0", "1", "2", "3", "4", "5", "6", "7", "8", "9"}
LowerSeq == <<"a", "b", "c", "d", "e", "f", "g", "h", "i", "j", "k", "l", "m",
              "n", "o", "p", "q", "r", "s", "t", "u", "v", "w", "x", "y", "z">>
UpperSeq == <<"A", "B", "C", "D", "E", "F", "G", "H", "I", "J", "K", "L", "M",
              "N", "O", "P", "Q", "R", "S", "T", "U", "V", "W", "X", "Y", "Z">>
Lowers == Range(LowerSeq)
Uppers == Range(UpperSeq)
\* the letters with diacritics of normalize_subject's lookahead, and the a-breve of NOTE_HINTS
UpperDiacritics == {"A_breve", "A_circ", "I_circ", "S_comma", "T_comma"}
LowerDiacritics == {"a_breve"}
Spaces == {" ", "TAB", "NL"}

IsSpace(ch) == ch \in Spaces
\* the regular expressions' \w
IsWord(ch) == ch \in Digits \cup Lowers \cup Uppers \cup UpperDiacritics \cup LowerDiacritics \cup {"_"}

\* str.upper() and str.lower(), character by character
ToUpper(ch) ==
  IF ch \in Lowers THEN UpperSeq[CHOOSE k \in 1..26 : LowerSeq[k] = ch]
  ELSE IF ch = "a_breve" THEN "A_breve" ELSE ch
ToLower(ch) ==
  IF ch \in Uppers THEN LowerSeq[CHOOSE k \in 1..26 : UpperSeq[k] = ch]
  ELSE IF ch = "A_breve" THEN "a_breve" ELSE ch
Upper(s) == List([k \in 1..Len(s) |-> ToUpper(s[k])])
Lower(s) == List([k \in 1..Len(s) |-> ToLower(s[k])])

\* the positions of a text, in order
Positions(s) == List([k \in 1..Len(s) |-> k])

\* str.lstrip(chars) and str.rstrip(chars): from the first character outside C,
\* and up to the last one
LStrip(s, C) ==
  IF \A k \in 1..Len(s) : s[k] \in C THEN <<>>
  ELSE SubSeq(s, CHOOSE k \in 1..Len(s) : s[k] \notin C /\ \A j \in 1..(k - 1) : s[j] \in C, Len(s))
RStrip(s, C) ==
  IF \A k \in 1..Len(s) : s[k] \in C THEN <<>>
  ELSE SubSeq(s, 1, CHOOSE k \in 1..Len(s) : s[k] \notin C /\ \A j \in (k + 1)..Len(s) : s[j] \in C)
\* str.strip(chars)
StripChars(s, C) == RStrip(LStrip(s, C), C)
Strip(s) == StripChars(s, Spaces)

\* re.sub(r"\s+", " ", s): each run of whitespace becomes one space, written
\* where the run starts
CollapseWs(s) ==
  IF s = <<>> THEN <<>> ELSE
  LET Starts(k) == ~IsSpace(s[k]) \/ k = 1 \/ ~IsSpace(s[k - 1])
      kept == SelectSeq(Positions(s), Starts)
  IN List([i \in 1..Len(kept) |-> IF IsSpace(s[kept[i]]) THEN " " ELSE s[kept[i]]])

normalize_ws(s) == CollapseWs(Strip(s))

\* s.replace(a, b) for single characters
ReplaceChar(s, a, b) == List([k \in 1..Len(s) |-> IF s[k] = a THEN b ELSE s[k]])

\* re.sub(r"\s*-\s*", "-", s): a match takes one "-" with the whitespace on
\* both sides of it, so the whitespace that reaches a "-" on its left or on its
\* right goes, and everything else stays
SubDash(s) ==
  IF s = <<>> THEN <<>> ELSE
  LET n == Len(s)
      DashLeft(k) == \E j \in 1..(k - 1) : s[j] = "-" /\ \A m \in (j + 1)..k : IsSpace(s[m])
      DashRight(k) == \E j \in (k + 1)..n : s[j] = "-" /\ \A m \in k..(j - 1) : IsSpace(s[m])
      Stays(k) == ~(IsSpace(s[k]) /\ (DashLeft(k) \/ DashRight(k)))
      kept == SelectSeq(Positions(s), Stays)
  IN List([i \in 1..Len(kept) |-> s[kept[i]]])

normalize_time_text(s) == SubDash(ReplaceChar(normalize_ws(s), EnDash, "-"))

\* Matching TIME_RE from the left: the sets of positions (of the next character
\* to read) after each piece of the pattern
AfterChar(s, P, C) == {p + 1 : p \in {q \in P : q <= Len(s) /\ s[q] \in C}}
AfterSpaces(s, P) ==
  {q \in 1..(Len(s) + 1) : \E p \in P : p <= q /\ \A k \in p..(q - 1) : IsSpace(s[k])}
AfterDigits12(s, P) ==
  AfterChar(s, P, Digits) \cup AfterChar(s, AfterChar(s, P, Digits), Digits)
AfterDigits2(s, P) == AfterChar(s, AfterChar(s, P, Digits), Digits)
AfterClock(s, P) ==
  LET hour == AfterDigits12(s, P)
  IN IF hour = {} THEN {}
     ELSE LET colon == AfterChar(s, hour, {":"})
          IN IF colon = {} THEN {} ELSE AfterDigits2(s, colon)

\* TIME_RE = ^\d{1,2}:\d{2}\s*[-EnDash]\s*\d{1,2}:\d{2}$
TimeReMatches(s) ==
  LET start == AfterClock(s, {1})
  IN IF start = {} THEN FALSE
     ELSE LET dash == AfterChar(s, AfterSpaces(s, start), {"-", EnDash})
          IN IF dash = {} THEN FALSE
             ELSE (Len(s) + 1) \in AfterClock(s, AfterSpaces(s, dash))

is_time_slot(s) == TimeReMatches(normalize_ws(s))

normalize_subject(subj) ==
  LET s1 == normalize_ws(subj)
  IN IF Len(s1) = 1 /\ s1[1] \in Lowers THEN <<>>
     ELSE LET s2 == IF Len(s1) >= 2 /\ s1[1] \in Lowers
                       /\ s1[2] \in Uppers \cup Digits \cup UpperDiacritics
                    THEN Strip(Tail(s1)) ELSE Strip(s1)
          IN IF Len(s2) < 2 THEN <<>> ELSE s2

\* The positions where re.search(rf"\b{cls}\b", text) can match: cls starts and
\* ends with a word character, so \b asks for no word character on either side
TokenMatches(text, cls) ==
  {k \in 1..(Len(text) - Len(cls) + 1) :
     /\ text[k] = cls[1]
     /\ (k = 1 \/ ~IsWord(text[k - 1]))
     /\ (k + Len(cls) - 1 = Len(text) \/ ~IsWord(text[k + Len(cls)]))
     /\ SubSeq(text, k, k + Len(cls) - 1) = cls}

HasToken(text, cls) == TokenMatches(text, cls) # {}

\* whether needle occurs in text (Python's "in" on strings)
IsSubstring(needle, text) ==
  \E k \in 1..(Len(text) - Len(needle) + 1) : SubSeq(text, k, k + Len(needle) - 1) = needle

\* sep.join(parts)
RECURSIVE Join(_, _)
Join(parts, sep) ==
  IF parts = <<>> THEN <<>>
  ELSE IF Len(parts) = 1 THEN parts[1]
  ELSE parts[1] \o sep \o Join(Tail(parts), sep)

(***************************************************************************)
(* The module's constants                                                  *)
(***************************************************************************)
LICEU_CLASSES == <<
  <<"9", "A">>, <<"9", "B">>, <<"9", "C">>, <<"9", "D">>,
  <<"1", "0", "A">>, <<"1", "0", "B">>, <<"1", "0", "C">>, <<"1", "0", "D">>,
  <<"1", "1", "A">>, <<"1", "1", "B">>, <<"1", "1", "C">>, <<"1", "1", "D">>,
  <<"1", "2", "A">>, <<"1", "2", "B">>, <<"1", "2", "C">>, <<"1", "2", "D">>
>>

GIMNAZIU_CLASSES == <<
  <<"5", "A">>, <<"5", "B">>, <<"5", "C">>, <<"5", "D">>,
  <<"6", "A">>, <<"6", "B">>, <<"6", "C">>, <<"6", "D">>,
  <<"7", "A">>, <<"7", "B">>, <<"7", "C">>, <<"7", "D">>,
  <<"8", "A">>, <<"8", "B">>, <<"8", "C">>, <<"8", "D">>
>>

Kinds == {"liceu", "gimnaziu"}
KIND_TO_CLASSES == [k \in Kinds |-> IF k = "liceu" THEN LICEU_CLASSES ELSE GIMNAZIU_CLASSES]

\* DAY_MARKERS: the day label, upper-cased, to the day's name
DayMarkerKeys == <<<<"M", "O", "N", "T", "A", "G">>, <<"D", "I", "E", "N", "S", "T", "A", "G">>, <<"M", "I", "T", "T", "W", "O", "C", "H">>,
                   <<"D", "O", "N", "N", "E", "R", "S", "T", "A", "G">>, <<"F", "R", "E", "I", "T", "A", "G">>>>
DayMarkerNames == <<"Luni", "Marti", "Miercuri", "Joi", "Vineri">>
InDayMarkers(t) == \E k \in 1..Len(DayMarkerKeys) : DayMarkerKeys[k] = t
DAY_MARKERS(t) == DayMarkerNames[CHOOSE k \in 1..Len(DayMarkerKeys) : DayMarkerKeys[k] = t]

NOTE_HINTS == <<<<"c", "a", "b">>, <<"l", "a", "b">>, <<"s", "a", "l", "a">>, <<"s", "a", "l", "a_breve">>, <<"c", "l", "a", "s", "a">>,
                <<"c", "l", "a", "s", "a_breve">>, <<"c", "l", ".">>, <<"c", "l", "s">>, <<"a", "u", "l", "a">>>>

\* the characters of extract_header_note's strip(" -EnDash|,.;:")
NoteStripChars == {" ", "-", EnDash, "|", ",", ".", ";", ":"}

\* Lengths in 1/20 of a page unit
Scale == 20
\* cluster_positions(..., tol=1.5)
ClusterTol == 30
\* get_y_bounds_for_crop: abs(y - cleaned[-1]) > 1.0
CleanTol == 20
\* parse_pdf: z["top"] - 8 and zones[i + 1]["top"] - 6
ZoneTopMargin == 160
ZoneBottomMargin == 120
\* get_global_x_bounds: a window of 18 boundaries
WantedBounds == 18
\* parse_day_block: len(y_bounds) < 5
MinRowBounds == 5
\* detect_header_row: the first 12 rows, and the floor 6 of the minimum score
HeaderScanRows == 12
HeaderFloor == 6
\* cell_text_from_chars: y_tol=1.2, x_gap=1.0, x_pad_left=1.4, x_pad_right=0.35, y_pad=0.2
YTol == 24
XGap == 20
XPadLeft == 28
XPadRight == 7
YPad == 4

(***************************************************************************)
(* cluster_positions                                                       *)
(***************************************************************************)
\* The loop body with the comparison weakened to >=
ClusterAddGe(cl, v, t) ==
  IF cl = <<>> \/ (IF v - Last(Last(cl)) < 0 THEN Last(Last(cl)) - v ELSE v - Last(Last(cl))) >= t
  THEN Append(cl, <<v>>)
  ELSE [cl EXCEPT ![Len(cl)] = Append(@, v)]

\* The loop body: a new cluster when v is more than t from the last member
\* of the last cluster, else v joins that cluster
ClusterAdd(cl, v, t) ==
  IF cl = <<>> \/ (IF v - Last(Last(cl)) < 0 THEN Last(Last(cl)) - v ELSE v - Last(Last(cl))) > t
  THEN Append(cl, <<v>>)
  ELSE [cl EXCEPT ![Len(cl)] = Append(@, v)]

\* sum(c) / len(c)
Mean(c) == <<SumSeq(c), Len(c)>>

ClusterMeans(cl) == List([k \in 1..Len(cl) |-> Mean(cl[k])])

\* The loop over the sorted values: a value opens a cluster when the loop
\* body, given the value before it as the last cluster, appends a cluster
ClusterFold(sorted, t) ==
  IF sorted = <<>> THEN <<>> ELSE
  LET n == Len(sorted)
      starts == {k \in 1..n : k = 1 \/ Len(ClusterAdd(<<<<sorted[k - 1]>>>>, sorted[k], t)) = 2}
      EndOf(k) == IF \E m \in starts : m > k
                  THEN (CHOOSE m \in starts : m > k /\ \A q \in starts : q > k => m <= q) - 1
                  ELSE n
      first == SetToSeq(starts)
  IN List([i \in 1..Len(first) |-> SubSeq(sorted, first[i], EndOf(first[i]))])

\* cluster_positions as one function
ClusterPositions(vs, t) == ClusterMeans(ClusterFold(Sorted(vs), t))

(***************************************************************************)
(* The page: pdfplumber's objects.  A word is [text, top, bottom], an edge *)
(* [orientation, x0, top, bottom], a char [text, x0, x1, top, bottom]; a   *)
(* char's text may hold several characters (a ligature, a run of glyphs).  *)
(***************************************************************************)
Max(a, b) == IF a >= b THEN a ELSE b
Min(a, b) == IF a <= b THEN a ELSE b

\* page.crop((0, y_start, page.width, y_end)): the objects that meet the box,
\* clipped to it
Crop(pg, y_start, y_end) ==
  LET Meets(o) == Min(o.bottom, y_end) - Max(o.top, y_start) >= 0
      Clip(o) == [o EXCEPT !.top = Max(o.top, y_start), !.bottom = Min(o.bottom, y_end)]
      edges == SelectSeq(pg.edges, Meets)
      chars == SelectSeq(pg.chars, Meets)
  IN [edges |-> List([k \in 1..Len(edges) |-> Clip(edges[k])]),
      chars |-> List([k \in 1..Len(chars) |-> Clip(chars[k])])]

(***************************************************************************)
(* find_day_zones                                                          *)
(***************************************************************************)
\* zones.sort(key=lambda z: z["top"])
SortZones(s) == StableSort(s, {p \in (DOMAIN s) \X (DOMAIN s) : s[p[1]].top < s[p[2]].top})

find_day_zones(pg) ==
  LET IsLabel(w) == InDayMarkers(Upper(w.text))
      labels == SelectSeq(pg.words, IsLabel)
  IN SortZones([k \in 1..Len(labels) |->
                  [day |-> DAY_MARKERS(Upper(labels[k].text)),
                   top |-> labels[k].top, bottom |-> labels[k].bottom]])

(***************************************************************************)
(* get_global_x_bounds and get_y_bounds_for_crop                           *)
(***************************************************************************)
\* the first window of WantedBounds boundaries among those of greatest width
BestWindow(xb) ==
  LET Width(i) == RSub(xb[i + WantedBounds - 1], xb[i])
      last == Len(xb) - (WantedBounds - 1)
      best == CHOOSE i \in 1..last :
                /\ \A j \in 1..last : RLe(Width(j), Width(i))
                /\ \A j \in 1..(i - 1) : RLt(Width(j), Width(i))
  IN SubSeq(xb, best, best + WantedBounds - 1)

get_global_x_bounds(pg) ==
  LET IsVert(e) == e.orientation = "v"
      verts == SelectSeq(pg.edges, IsVert)
      xs == [k \in 1..Len(verts) |-> verts[k].x0]
      xb == SortedR(ClusterPositions(xs, ClusterTol))
  IN IF Len(xb) > WantedBounds THEN BestWindow(xb)
     ELSE xb

RECURSIVE Cleaned(_, _)
Cleaned(ys, cleaned) ==
  IF ys = <<>> THEN cleaned
  ELSE IF cleaned = <<>> \/ RLt(Rat(CleanTol), RAbs(RSub(Head(ys), Last(cleaned))))
  THEN Cleaned(Tail(ys), Append(cleaned, Head(ys)))
  ELSE Cleaned(Tail(ys), cleaned)

get_y_bounds_for_crop(page_crop) ==
  LET IsHoriz(e) == e.orientation = "h"
      horiz == SelectSeq(page_crop.edges, IsHoriz)
      ys == [k \in 1..Len(horiz) |-> horiz[k].top]
  IN Cleaned(SortedR(ClusterPositions(ys, ClusterTol)), <<>>)

(***************************************************************************)
(* cell_text_from_chars                                                    *)
(***************************************************************************)
RECURSIVE Gcd(_, _)
Gcd(a, b) == IF b = 0 THEN a ELSE Gcd(b, a % b)
Reduced(q) == LET g == Gcd(IF q[1] < 0 THEN 0 - q[1] ELSE q[1], q[2])
              IN IF g = 0 THEN q ELSE <<q[1] \div g, q[2] \div g>>

BeforeTopX0(a, b) == a.top < b.top \/ (a.top = b.top /\ a.x0 < b.x0)

\* sel.sort(key=lambda c: (c["top"], c["x0"])), a stable sort
SortTopX0(s) == StableSort(s, {p \in (DOMAIN s) \X (DOMAIN s) : BeforeTopX0(s[p[1]], s[p[2]])})

\* line.sort(key=lambda c: c["x0"]), a stable sort
SortX0(s) == StableSort(s, {p \in (DOMAIN s) \X (DOMAIN s) : s[p[1]].x0 < s[p[2]].x0})

\* the grouping of the selected chars into lines; cur_top follows the line as
\* cur_top * 0.7 + ch["top"] * 0.3
RECURSIVE GroupLines(_, _, _, _)
GroupLines(rest, lines, cur, cur_top) ==
  IF rest = <<>> THEN (IF cur # <<>> THEN Append(lines, cur) ELSE lines)
  ELSE LET ch == Head(rest)
       IN IF cur = <<>>
          THEN GroupLines(Tail(rest), lines, <<ch>>, Rat(ch.top))
          ELSE IF RLe(RAbs(RSub(Rat(ch.top), cur_top)), Rat(YTol))
          THEN GroupLines(Tail(rest), lines, Append(cur, ch),
                          Reduced(<<7 * cur_top[1] + 3 * ch.top * cur_top[2], 10 * cur_top[2]>>))
          ELSE GroupLines(Tail(rest), Append(lines, cur), <<ch>>, Rat(ch.top))

RECURSIVE LineText(_, _)
LineText(line, prev) ==
  IF line = <<>> THEN <<>>
  ELSE LET ch == Head(line)
           gap == IF prev # <<>> /\ ch.x0 - prev[1].x1 > XGap THEN <<" ">> ELSE <<>>
       IN gap \o ch.text \o LineText(Tail(line), <<ch>>)

cell_text_from_chars(chars, x0, x1, y0, y1) ==
  LET px0 == RAddInt(x0, XPadLeft)
      px1 == RAddInt(x1, 0 - XPadRight)
      py0 == RAddInt(y0, YPad)
      py1 == RAddInt(y1, 0 - YPad)
      sx0 == IF RLe(px1, px0) THEN x0 ELSE px0
      sx1 == IF RLe(px1, px0) THEN x1 ELSE px1
      sy0 == IF RLe(py1, py0) THEN y0 ELSE py0
      sy1 == IF RLe(py1, py0) THEN y1 ELSE py1
      Inside(ch) ==
        LET cx == <<ch.x0 + ch.x1, 2>>
            cy == <<ch.top + ch.bottom, 2>>
        IN RLt(sx0, cx) /\ RLt(cx, sx1) /\ RLt(sy0, cy) /\ RLt(cy, sy1)
      sel == SortTopX0(SelectSeq(chars, Inside))
      lines == GroupLines(sel, <<>>, <<>>, <<>>)
      out_lines == [k \in 1..Len(lines) |-> Strip(LineText(SortX0(lines[k]), <<>>))]
      NonEmpty(l) == l # <<>>
  IN IF sel = <<>> THEN <<>>
     ELSE normalize_ws(Join(SelectSeq(out_lines, NonEmpty), <<" ">>))

\* parse_day_block's grid: rows r = 0..n_rows-1 and columns c = 0..n_cols-1 of
\* the code are grid[r + 1][c + 1] here
BuildGrid(chars, xb, yb) ==
  List([r \in 1..(Len(yb) - 1) |->
          List([c \in 1..(Len(xb) - 1) |->
                  cell_text_from_chars(chars, xb[c], xb[c + 1], yb[r], yb[r + 1])])])

Cell(g, r, c) == g[r + 1][c + 1]

(***************************************************************************)
(* detect_header_row                                                       *)
(***************************************************************************)
\* Python's None, where a row index is expected
None == 0 - 1

\* the count of distinct expected classes found in row r, column 0 left out
RowScore(g, r, expected) ==
  LET row == g[r + 1]
      row_text == IF row = <<>> THEN <<>> ELSE Join(Tail(row), <<" ">>)
  IN Cardinality({k \in 1..Len(expected) : HasToken(row_text, expected[k])})

\* one iteration of the loop over the rows: best == <<best_r, best_score>>
HeaderLoopStep(g, r, expected, best) ==
  LET score == RowScore(g, r, expected)
  IN IF score > best[2] THEN <<r, score>> ELSE best

RECURSIVE HeaderLoop(_, _, _, _)
HeaderLoop(g, r, expected, best) ==
  IF r >= Min(HeaderScanRows, Len(g)) THEN best
  ELSE HeaderLoop(g, r + 1, expected, HeaderLoopStep(g, r, expected, best))

\* the decision after the loop, with the minimum score left out
HeaderDecisionNoMinimum(expected, best) == best[1]

\* the decision after the loop
HeaderDecision(expected, best) ==
  IF best[1] = None THEN None
  ELSE IF best[2] < Max(HeaderFloor, Len(expected) \div 2) THEN None
  ELSE best[1]

detect_header_row(g, expected) ==
  HeaderDecision(expected, HeaderLoop(g, 0, expected, <<None, 0 - 1>>))

(***************************************************************************)
(* extract_header_note                                                     *)
(***************************************************************************)
extract_header_note(header_cell, cls) ==
  LET txt == normalize_ws(header_cell)
      at == TokenMatches(txt, cls)
      low == Lower(txt)
  IN IF txt = <<>> THEN <<>>
     ELSE IF at # {}
     THEN LET k == Min1(at)
              cut == SubSeq(txt, 1, k - 1) \o SubSeq(txt, k + Len(cls), Len(txt))
          IN Strip(StripChars(normalize_ws(Strip(cut)), NoteStripChars))
     ELSE IF (\E h \in 1..Len(NOTE_HINTS) : IsSubstring(NOTE_HINTS[h], low)) /\ txt # cls
     THEN Strip(StripChars(txt, NoteStripChars))
     ELSE <<>>

(***************************************************************************)
(* parse_day_block.  A dict is a function on its keys; the empty dict is   *)
(* the empty function <<>>.                                                *)
(***************************************************************************)
EmptyDict == <<>>

\* f"{time_out} | {subj}"
Entry(time_out, subj) == time_out \o <<" ", "|", " ">> \o subj

\* the append without the membership test
AppendAlways(list, e) == Append(list, e)

\* if entry not in list: list.append(entry)
AppendNew(list, e) == IF e \in Range(list) THEN list ELSE Append(list, e)

RECURSIVE AppendAllNew(_, _)
AppendAllNew(list, es) ==
  IF es = <<>> THEN list ELSE AppendAllNew(AppendNew(list, Head(es)), Tail(es))

\* the mapping read from the header row: a column whose header cell holds its
\* class token and no other text after it but a note without a comma
ColToClassFromHeader(expected, n_cols, header_row) ==
  LET all == 1..Min(Len(expected), n_cols - 1)
      kept == {c \in all : /\ HasToken(header_row[c + 1], expected[c])
                           /\ "," \notin Range(header_row[c + 1])}
  IN [c \in kept |-> expected[c]]

\* col_to_class = {c: expected_classes[c - 1] for c in range(1, 1 + max_class_cols)}:
\* the code's column c, and the code's expected_classes[c - 1] is expected_classes[c] here
ColToClass(expected, n_cols, header_row) ==
  [c \in 1..Min(Len(expected), n_cols - 1) |-> expected[c]]

\* the day notes read from the header row
HeaderNotes(header_row, ctc) ==
  LET Note(c) == extract_header_note(header_row[c + 1], ctc[c])
      noted == {c \in DOMAIN ctc : Note(c) # <<>>}
  IN [cls \in {ctc[c] : c \in noted} |->
        Note(CHOOSE c \in noted : ctc[c] = cls)]

\* the subject a cell contributes, <<>> when the cell is skipped
CellSubject(g, r, c, expected) ==
  LET subj == normalize_subject(Cell(g, r, c))
  IN IF subj = <<>> THEN <<>>
     ELSE IF subj \in Range(expected) THEN <<>>
     ELSE subj

IsDataRow(g, r) == is_time_slot(normalize_ws(Cell(g, r, 0)))
TimeOut(g, r) == normalize_time_text(normalize_ws(Cell(g, r, 0)))

\* the entries row r offers, by class: <<>> for a class it offers none
RowOffers(g, r, ctc, expected) ==
  IF ~IsDataRow(g, r) THEN [cls \in Range(expected) |-> <<>>]
  ELSE LET time_out == TimeOut(g, r)
           subjects == [c \in DOMAIN ctc |-> CellSubject(g, r, c, expected)]
       IN [cls \in Range(expected) |->
             IF \E c \in DOMAIN ctc : ctc[c] = cls /\ subjects[c] # <<>>
             THEN Entry(time_out, subjects[CHOOSE c \in DOMAIN ctc : ctc[c] = cls])
             ELSE <<>>]

\* one iteration of: for r in range(header_r + 1, n_rows)
BlockRowStep(day_sched, g, r, ctc, expected) ==
  LET row_offers == RowOffers(g, r, ctc, expected)
  IN [cls \in DOMAIN day_sched |->
        IF row_offers[cls] = <<>> THEN day_sched[cls]
        ELSE AppendNew(day_sched[cls], row_offers[cls])]

\* day_schedule = {k: v for k, v in day_schedule.items() if v}
DropEmpties(d) == [k \in {j \in DOMAIN d : d[j] # <<>>} |-> d[k]]

(***************************************************************************)
(* The merges of parse_pdf and of main                                     *)
(***************************************************************************)
Get(d, k, default) == IF k \in DOMAIN d THEN d[k] ELSE default

\* merge schedule with the day's list assigned instead of extended
MergeScheduleAssign(fs, day_name, day_block) ==
  [cls \in DOMAIN fs \cup DOMAIN day_block |->
     IF cls \notin DOMAIN day_block THEN fs[cls]
     ELSE LET days == Get(fs, cls, EmptyDict)
          IN [d \in DOMAIN days \cup {day_name} |->
                IF d = day_name THEN day_block[cls] ELSE days[d]]]

\* parse_pdf: merge schedule
MergeSchedule(fs, day_name, day_block) ==
  [cls \in DOMAIN fs \cup DOMAIN day_block |->
     IF cls \notin DOMAIN day_block THEN fs[cls]
     ELSE LET days == Get(fs, cls, EmptyDict)
          IN [d \in DOMAIN days \cup {day_name} |->
                IF d = day_name
                THEN AppendAllNew(Get(days, day_name, <<>>), day_block[cls])
                ELSE days[d]]]

\* the note kept for a class and day that may already have one
MergeNote(days, day_name, note) ==
  IF day_name \in DOMAIN days /\ days[day_name] # note
  THEN IF ~IsSubstring(note, days[day_name])
       THEN days[day_name] \o <<";", " ">> \o note
       ELSE days[day_name]
  ELSE note

\* parse_pdf: merge notes
MergeNotes(fn, day_name, notes) ==
  [cls \in DOMAIN fn \cup DOMAIN notes |->
     IF cls \notin DOMAIN notes THEN fn[cls]
     ELSE LET days == Get(fn, cls, EmptyDict)
          IN [d \in DOMAIN days \cup {day_name} |->
                IF d = day_name THEN MergeNote(days, day_name, notes[cls]) ELSE days[d]]]

\* main: merge the schedule parse_pdf returned into schedule_all
MainMergeSchedule(sched_all, new_sched) ==
  [cls \in DOMAIN sched_all \cup DOMAIN new_sched |->
     IF cls \notin DOMAIN new_sched THEN sched_all[cls]
     ELSE LET days == Get(sched_all, cls, EmptyDict)
              new == new_sched[cls]
          IN [d \in DOMAIN days \cup DOMAIN new |->
                IF d \in DOMAIN new THEN AppendAllNew(Get(days, d, <<>>), new[d])
                ELSE days[d]]]

\* main: merge the notes parse_pdf returned into day_notes_all
MainMergeNotes(notes_all, new_nts) ==
  [cls \in DOMAIN notes_all \cup DOMAIN new_nts |->
     IF cls \notin DOMAIN new_nts THEN notes_all[cls]
     ELSE LET days == Get(notes_all, cls, EmptyDict)
              new == new_nts[cls]
          IN [d \in DOMAIN days \cup DOMAIN new |->
                IF d \in DOMAIN new THEN MergeNote(days, d, new[d]) ELSE days[d]]]

\* {cls: dn for cls, dn in d.items() if dn}
DropEmptyDicts(d) == [k \in {j \in DOMAIN d : DOMAIN d[j] # {}} |-> d[k]]

\* dict.pop(cls, None) for every cls of classes
PopAll(d, classes) == [k \in DOMAIN d \ Range(classes) |-> d[k]]

(***************************************************************************)
(* The pages the model parses: timetable pages laid out as the site's      *)
(* PDFs are, one table per day under its day label, each built from a      *)
(* sequence of zone kinds and a variant of the vertical rules.             *)
(***************************************************************************)
\* Bound: the zones of a page
MaxZones == 3
\* the zone kinds below
ZoneKinds == 1..5

ColLeft(c) == (50 + 40 * c) * Scale
ZoneTop(j) == (100 + 120 * (j - 1)) * Scale
RowTop(j, r) == ZoneTop(j) - 4 * Scale + 20 * Scale * r
PageHeight(n) == (120 + 120 * n) * Scale

Texts ==
  [Math |-> <<"M", "a", "t", "h">>,
   aBio |-> <<"a", "B", "i", "o">>,
   Chimie |-> <<"C", "h", "i", "m", "i", "e">>,
   Fizica |-> <<"F", "i", "z", "i", "c", "a">>,
   Info |-> <<"I", "n", "f", "o">>,
   Sport |-> <<"S", "p", "o", "r", "t">>,
   Germana |-> <<"G", "e", "r", "m", "a", "n", "a">>,
   Engleza |-> <<"E", "n", "g", "l", "e", "z", "a">>,
   x |-> <<"x">>,
   Orar |-> <<"O", "r", "a", "r">>,
   slot8 |-> <<"8", ":", "0", "0", "-", "8", ":", "5", "0">>,
   slot8_spaced |-> <<"8", ":", "0", "0", " ", "endash", " ", "8", ":", "5", "0">>,
   slot9 |-> <<"9", ":", "0", "0", "-", "9", ":", "5", "0">>,
   slot10 |-> <<"1", "0", ":", "0", "0", "-", "1", "0", ":", "5", "0">>,
   date |-> <<"1", "9", ".", "0", "1">>,
   lab_bio |-> <<" ", "l", "a", "b", ".", " ", "b", "i", "o">>,
   cab_3 |-> <<" ", "c", "a", "b", ".", " ", "3">>,
   comma_D |-> <<",", " ", "D">>]

\* The zone kinds: the day label, the number of horizontal rules, the header
\* cells (by column, 1..16) and the data rows (the time cell, then the cells by
\* column)
ZoneLabel(zkind) ==
  CASE zkind = 1 -> <<"M", "O", "N", "T", "A", "G">>
    [] zkind = 2 -> <<"M", "o", "n", "t", "a", "g">>
    [] zkind = 3 -> <<"D", "I", "E", "N", "S", "T", "A", "G">>
    [] zkind = 4 -> <<"D", "I", "E", "N", "S", "T", "A", "G">>
    [] OTHER -> <<"D", "i", "e", "n", "s", "t", "a", "g">>

ZoneRules(zkind) == IF zkind = 3 THEN MinRowBounds - 1 ELSE MinRowBounds

ZoneHeader(zkind, classes) ==
  [c \in 1..Len(classes) |->
     CASE zkind = 1 /\ c = 2 -> classes[c] \o Texts.lab_bio
       [] zkind = 1 /\ c = 7 -> classes[c] \o Texts.comma_D
       [] zkind = 1 /\ c = 8 -> <<>>
       [] zkind = 2 /\ c = 2 -> classes[c] \o Texts.cab_3
       [] zkind = 4 /\ c > HeaderFloor + 1 -> <<>>
       [] OTHER -> classes[c]]

NoCells == [c \in {} |-> <<>>]

ZoneRows(zkind, classes) ==
  CASE zkind = 1 ->
         << <<Texts.slot8, (1 :> Texts.Math) @@ (2 :> Texts.aBio) @@ (3 :> Texts.slot8) @@ (4 :> classes[5])
                      @@ (5 :> Texts.x) @@ (7 :> Texts.Fizica)>>,
            <<Texts.slot8_spaced, (1 :> Texts.Math) @@ (2 :> Texts.Chimie)>>,
            <<Texts.date, (1 :> Texts.Sport)>> >>
    [] zkind = 2 ->
         << <<Texts.slot9, (1 :> Texts.Info)>>,
            <<Texts.slot8, (1 :> Texts.Math)>>,
            <<Texts.slot8, NoCells>> >>
    [] zkind = 3 ->
         << <<Texts.slot8, (1 :> Texts.Sport)>>, <<Texts.slot9, (1 :> Texts.Info)>> >>
    [] zkind = 4 ->
         << <<Texts.slot8, (1 :> Texts.Sport)>>, <<Texts.slot9, (2 :> Texts.Info)>>, <<Texts.slot10, NoCells>> >>
    [] OTHER ->
         << <<Texts.slot10, (1 :> Texts.Germana) @@ (Len(classes) :> Texts.Engleza)>>,
            <<Texts.slot9, NoCells>>,
            <<Texts.slot10, (1 :> Texts.Germana)>> >>

\* the chars of a text set in cell (r, c) of zone j
CellChar(j, r, c, text) ==
  [text |-> text, x0 |-> ColLeft(c) + 5 * Scale, x1 |-> ColLeft(c) + 25 * Scale,
   top |-> RowTop(j, r) + 5 * Scale, bottom |-> RowTop(j, r) + 15 * Scale]

RECURSIVE Flatten(_)
Flatten(ss) == IF ss = <<>> THEN <<>> ELSE Head(ss) \o Flatten(Tail(ss))

ZoneChars(j, zkind, classes) ==
  LET header == ZoneHeader(zkind, classes)
      rows == ZoneRows(zkind, classes)
      hcols == {c \in 1..Len(classes) : header[c] # <<>>}
      HeaderChars == [k \in 1..Cardinality(hcols) |->
                        LET c == SetToSeq(hcols)[k] IN CellChar(j, 0, c, header[c])]
      RowChars(r) ==
        LET cols == SetToSeq(DOMAIN rows[r][2])
        IN <<CellChar(j, r, 0, rows[r][1])>>
           \o [k \in 1..Len(cols) |-> CellChar(j, r, cols[k], rows[r][2][cols[k]])]
  IN <<CellChar(j, 0, 0, ZoneLabel(zkind))>> \o HeaderChars
     \o Flatten([r \in 1..Len(rows) |-> RowChars(r)])

ZoneEdges(j, zkind, n) ==
  [k \in 1..ZoneRules(zkind) |->
     [orientation |-> "h", x0 |-> ColLeft(0), top |-> RowTop(j, k - 1), bottom |-> RowTop(j, k - 1)]]

\* The variants of the vertical rules: the 18 rules of the grid; every rule
\* drawn twice, 1 unit apart; two more rules outside the grid; three rules only;
\* none
EdgeVariants == {"grid", "double", "wide", "few", "none"}

VerticalXs(variant) ==
  CASE variant = "grid" -> [k \in 1..WantedBounds |-> ColLeft(k - 1)]
    [] variant = "double" ->
         [k \in 1..(2 * WantedBounds) |-> ColLeft((k - 1) \div 2) + ((k - 1) % 2) * Scale]
    [] variant = "wide" ->
         <<ColLeft(0) - 30 * Scale>> \o [k \in 1..WantedBounds |-> ColLeft(k - 1)]
         \o <<ColLeft(WantedBounds - 1) + 10 * Scale>>
    [] variant = "few" -> <<ColLeft(0), ColLeft(1), ColLeft(WantedBounds - 1)>>
    [] OTHER -> <<>>

MakePage(kinds, variant, classes) ==
  LET n == Len(kinds)
      xs == VerticalXs(variant)
  IN [height |-> PageHeight(n),
      words |-> <<[text |-> Texts.Orar, top |-> 20 * Scale, bottom |-> 30 * Scale]>>
                \o [j \in 1..n |-> [text |-> ZoneLabel(kinds[j]), top |-> ZoneTop(j),
                                    bottom |-> ZoneTop(j) + 10 * Scale]],
      edges |-> [k \in 1..Len(xs) |->
                   [orientation |-> "v", x0 |-> xs[k], top |-> 90 * Scale, bottom |-> PageHeight(n)]]
                \o Flatten([j \in 1..n |-> ZoneEdges(j, kinds[j], n)]),
      chars |-> Flatten([j \in 1..n |-> ZoneChars(j, kinds[j], classes)])]

(***************************************************************************)
(* main's surroundings: timetable.json, the PDFs found on the site         *)
(***************************************************************************)
EmptyDoc == [sources |-> EmptyDict, schedule |-> EmptyDict, day_notes |-> EmptyDict]

\* a timetable.json an earlier run wrote
OldDoc ==
  [sources |-> [k \in Kinds |-> [source_pdf |-> k, pdf_hash |-> "h_old"]],
   schedule |-> (LICEU_CLASSES[1] :> [Luni |-> <<Entry(Texts.slot8, Texts.Sport)>>])
                @@ (GIMNAZIU_CLASSES[1] :> [Joi |-> <<Entry(Texts.slot9, Texts.Info)>>]),
   day_notes |-> (LICEU_CLASSES[1] :> [Luni |-> Texts.Orar])]

\* timetable.json: missing, unreadable as JSON, an earlier run's, or an earlier
\* run's that found the liceu PDF only
OutputFiles ==
  {[exists |-> FALSE, parsable |-> FALSE, doc |-> EmptyDoc],
   [exists |-> TRUE, parsable |-> FALSE, doc |-> EmptyDoc],
   [exists |-> TRUE, parsable |-> TRUE, doc |-> OldDoc],
   [exists |-> TRUE, parsable |-> TRUE,
    doc |-> [OldDoc EXCEPT !.sources = ("liceu" :> OldDoc.sources["liceu"])]]}

\* load_old_state
load_old_state(file) == IF file.exists /\ file.parsable THEN file.doc ELSE EmptyDoc

\* file_hash of a downloaded PDF: the hash the old state stores, or another
Hashes == {"h_old", "h_new"}

\* what pick_latest_pdfs_by_kind can return, as the sequence found.items()
FoundOrders == {<<>>, <<"liceu">>, <<"gimnaziu">>, <<"liceu", "gimnaziu">>, <<"gimnaziu", "liceu">>}

\* The zone kinds of the pages: every sequence of at most two kinds, and the
\* sequences of up to MaxZones zones of a kind that parses and a kind that fails
ZoneSeqs(few) ==
  IF few THEN {<<>>, <<5>>}
  ELSE {zk \in SeqsUpTo(ZoneKinds, MaxZones) : Len(zk) <= 2 \/ Range(zk) \subseteq {1, 3}}

\* The first pages of the PDFs of a kind.  A run that found one PDF parses any
\* of the pages; a run that found two parses one of a few for each.
PagesOf(k, alone) ==
  IF k = "liceu" /\ alone
  THEN {MakePage(zk, "grid", LICEU_CLASSES) : zk \in ZoneSeqs(FALSE)}
       \cup {MakePage(<<1>>, v, LICEU_CLASSES) : v \in EdgeVariants}
  ELSE {MakePage(zk, "grid", KIND_TO_CLASSES[k]) : zk \in ZoneSeqs(TRUE) \cup (IF alone THEN {<<1, 2>>} ELSE {})}

ClusterIdle ==
  /\ c_pc = "idle" /\ values = <<>> /\ tol = 0
  /\ clusters = <<>> /\ c_i = 0 /\ c_out = <<>>

PdfIdle ==
  /\ page = <<>> /\ expected_classes = <<>> /\ x_bounds = <<>> /\ zones = <<>> /\ z_i = 0
  /\ final_schedule = EmptyDict /\ final_notes = EmptyDict
  /\ crops = <<>> /\ zone_results = <<>> /\ merge_offers = EmptyDict

BlockIdle ==
  /\ y_bounds = <<>> /\ grid = <<>> /\ header_r = None /\ col_to_class = EmptyDict
  /\ day_notes = EmptyDict /\ day_schedule = EmptyDict /\ b_r = 0 /\ offers = EmptyDict

HeaderIdle ==
  /\ h_pc = "idle" /\ h_grid = <<>> /\ h_expected = <<>> /\ h_r = 0
  /\ best_r = None /\ best_score = 0 - 1 /\ h_out = None

MergeIdle ==
  /\ m_pc = "idle" /\ m_level = "" /\ partials = <<>> /\ m_left = {} /\ m_order = <<>>
  /\ m_schedule = EmptyDict /\ m_notes = EmptyDict

MainIdle ==
  /\ pc = "idle" /\ found = <<>> /\ kind = "" /\ output_file = [exists |-> FALSE, parsable |-> FALSE, doc |-> EmptyDoc]
  /\ old = EmptyDoc /\ changed_any = FALSE /\ schedule_all = EmptyDict /\ day_notes_all = EmptyDict
  /\ sources_out = EmptyDict /\ new_schedule = EmptyDict /\ new_notes = EmptyDict /\ tmp_files = {}
  /\ writes = 0 /\ notify_calls = 0 /\ posts = 0 /\ file0 = output_file

(***************************************************************************)
(* main and parse_pdf, step by step                                        *)
(***************************************************************************)
Init ==
  /\ pc = "start"
  /\ found \in FoundOrders
  /\ tmp_files = Range(found)
  /\ output_file \in OutputFiles
  /\ file0 = output_file
  /\ kind = "" /\ old = EmptyDoc /\ changed_any = FALSE
  /\ schedule_all = EmptyDict /\ day_notes_all = EmptyDict /\ sources_out = EmptyDict
  /\ new_schedule = EmptyDict /\ new_notes = EmptyDict
  /\ writes = 0 /\ notify_calls = 0 /\ posts = 0
  /\ PdfIdle /\ BlockIdle /\ ClusterIdle /\ HeaderIdle /\ MergeIdle

\* main, to the loop over found: "No usable timetable PDFs" or the old state loaded
MainStart ==
  /\ pc = "start"
  /\ IF found = <<>>
     THEN /\ pc' = "no_pdfs"
          /\ UNCHANGED <<old, changed_any, schedule_all, day_notes_all, sources_out>>
     ELSE /\ old' = load_old_state(output_file)
          /\ schedule_all' = old'.schedule
          /\ day_notes_all' = old'.day_notes
          /\ sources_out' = old'.sources
          /\ changed_any' = ~output_file.exists
          /\ pc' = "kind_loop"
  /\ UNCHANGED <<found, kind, output_file, new_schedule, new_notes, tmp_files,
                 writes, notify_calls, posts, file0>>
  /\ UNCHANGED <<unitVars, pdfVars, blockVars>>

\* one iteration of the loop over found, to the call of parse_pdf
MainKind ==
  /\ pc = "kind_loop"
  /\ found # <<>>
  /\ kind' = Head(found)
  /\ found' = Tail(found)
  /\ \E pdf_hash \in Hashes :
       LET old_hash == IF kind' \in DOMAIN old.sources THEN old.sources[kind'].pdf_hash ELSE "none"
       IN /\ sources_out' = [k \in DOMAIN sources_out \cup {kind'} |->
                               IF k = kind' THEN [source_pdf |-> kind', pdf_hash |-> pdf_hash]
                               ELSE sources_out[k]]
          /\ changed_any' = (changed_any \/ pdf_hash # old_hash)
  /\ schedule_all' = PopAll(schedule_all, KIND_TO_CLASSES[kind'])
  /\ day_notes_all' = PopAll(day_notes_all, KIND_TO_CLASSES[kind'])
  /\ page' \in PagesOf(kind', kind = "" /\ found' = <<>>)
  /\ expected_classes' = KIND_TO_CLASSES[kind']
  /\ final_schedule' = EmptyDict /\ final_notes' = EmptyDict
  /\ x_bounds' = <<>> /\ zones' = <<>> /\ z_i' = 0
  /\ crops' = <<>> /\ zone_results' = <<>> /\ merge_offers' = EmptyDict
  /\ pc' = "parse_pdf"
  /\ UNCHANGED <<output_file, old, new_schedule, new_notes, tmp_files, writes, notify_calls, posts, file0>>
  /\ UNCHANGED <<unitVars, blockVars>>

\* parse_pdf with a page without day labels returning an empty result
PdfFindZonesNoRaise ==
  /\ pc = "parse_pdf"
  /\ x_bounds' = get_global_x_bounds(page)
  /\ zones' = find_day_zones(page)
  /\ pc' = "zone"
  /\ UNCHANGED tmp_files
  /\ UNCHANGED <<page, expected_classes, z_i, final_schedule, final_notes, crops, zone_results, merge_offers>>
  /\ UNCHANGED <<found, kind, output_file, old, changed_any, schedule_all, day_notes_all,
                 sources_out, new_schedule, new_notes, writes, notify_calls, posts, file0>>
  /\ UNCHANGED <<unitVars, blockVars>>

\* parse_pdf, to the loop over the zones: the RuntimeError when no day label is
\* found, which main's try/finally lets through after removing the PDF
PdfFindZones ==
  /\ pc = "parse_pdf"
  /\ x_bounds' = get_global_x_bounds(page)
  /\ zones' = find_day_zones(page)
  /\ IF zones' = <<>>
     THEN pc' = "raised" /\ tmp_files' = tmp_files \ {kind}
     ELSE pc' = "zone" /\ UNCHANGED tmp_files
  /\ UNCHANGED <<page, expected_classes, z_i, final_schedule, final_notes, crops, zone_results, merge_offers>>
  /\ UNCHANGED <<found, kind, output_file, old, changed_any, schedule_all, day_notes_all,
                 sources_out, new_schedule, new_notes, writes, notify_calls, posts, file0>>
  /\ UNCHANGED <<unitVars, blockVars>>

\* the box parse_pdf crops for zone i (the code's i, from 0)
ZoneBox(zs, i, height) ==
  [y_start |-> Max(0, zs[i + 1].top - ZoneTopMargin),
   y_end |-> IF i + 1 < Len(zs) THEN zs[i + 2].top - ZoneBottomMargin ELSE height]

\* where parse_pdf goes on after a zone that parse_day_block gave up
AfterZoneFailureAbort == "raised"
AfterZoneFailure == "zone_merge"

\* one iteration of the loop over the zones, to parse_day_block's loop over the
\* rows, or to its early return {}, {}
ZoneBegin ==
  /\ pc = "zone"
  /\ z_i < Len(zones)
  /\ LET box == ZoneBox(zones, z_i, page.height)
         page_crop == Crop(page, box.y_start, box.y_end)
     IN /\ crops' = Append(crops, box)
        /\ y_bounds' = get_y_bounds_for_crop(page_crop)
        /\ grid' = IF Len(y_bounds') < MinRowBounds THEN <<>>
                   ELSE BuildGrid(page_crop.chars, x_bounds, y_bounds')
  /\ header_r' = IF Len(y_bounds') < MinRowBounds THEN None
                 ELSE detect_header_row(grid', expected_classes)
  /\ IF header_r' = None
     THEN /\ col_to_class' = EmptyDict /\ day_notes' = EmptyDict
          /\ day_schedule' = EmptyDict /\ offers' = EmptyDict /\ b_r' = 0
          /\ pc' = AfterZoneFailure
     ELSE /\ col_to_class' = ColToClass(expected_classes, Len(x_bounds) - 1, grid'[header_r' + 1])
          /\ day_notes' = HeaderNotes(grid'[header_r' + 1], col_to_class')
          /\ day_schedule' = [cls \in Range(expected_classes) |-> <<>>]
          /\ offers' = [cls \in Range(expected_classes) |-> <<>>]
          /\ b_r' = header_r' + 1
          /\ pc' = "block_rows"
  /\ UNCHANGED <<page, expected_classes, x_bounds, zones, z_i, final_schedule, final_notes,
                 zone_results, merge_offers>>
  /\ UNCHANGED <<found, kind, output_file, old, changed_any, schedule_all, day_notes_all,
                 sources_out, new_schedule, new_notes, tmp_files, writes, notify_calls, posts, file0>>
  /\ UNCHANGED unitVars

\* parse_day_block: one iteration of the loop over the rows below the header
BlockRow ==
  /\ pc = "block_rows"
  /\ b_r < Len(grid)
  /\ day_schedule' = BlockRowStep(day_schedule, grid, b_r, col_to_class, expected_classes)
  /\ LET row_offers == RowOffers(grid, b_r, col_to_class, expected_classes)
     IN offers' = [cls \in DOMAIN offers |->
                     IF row_offers[cls] = <<>> THEN offers[cls]
                     ELSE Append(offers[cls], row_offers[cls])]
  /\ b_r' = b_r + 1
  /\ UNCHANGED <<y_bounds, grid, header_r, col_to_class, day_notes>>
  /\ UNCHANGED <<pc, mainVars, pdfVars, unitVars>>

\* parse_day_block: drop empties, return
BlockReturn ==
  /\ pc = "block_rows"
  /\ b_r >= Len(grid)
  /\ day_schedule' = DropEmpties(day_schedule)
  /\ pc' = "zone_merge"
  /\ UNCHANGED <<y_bounds, grid, header_r, col_to_class, day_notes, b_r, offers>>
  /\ UNCHANGED <<found, kind, output_file, old, changed_any, schedule_all, day_notes_all,
                 sources_out, new_schedule, new_notes, tmp_files, writes, notify_calls, posts, file0>>
  /\ UNCHANGED <<pdfVars, unitVars>>

ZoneFailed == Len(y_bounds) < MinRowBounds \/ header_r = None

\* parse_pdf: merge schedule, merge notes, next zone
ZoneMerge ==
  /\ pc = "zone_merge"
  /\ LET day_name == zones[z_i + 1].day
     IN /\ final_schedule' = MergeSchedule(final_schedule, day_name, day_schedule)
        /\ final_notes' = MergeNotes(final_notes, day_name, day_notes)
        /\ merge_offers' =
             [key \in DOMAIN merge_offers \cup {<<cls, day_name>> : cls \in DOMAIN day_schedule} |->
                IF key[2] = day_name /\ key[1] \in DOMAIN day_schedule
                THEN Get(merge_offers, key, <<>>) \o day_schedule[key[1]]
                ELSE merge_offers[key]]
        /\ zone_results' = Append(zone_results,
                                  [day |-> day_name, failed |-> ZoneFailed,
                                   block |-> day_schedule, notes |-> day_notes])
  /\ z_i' = z_i + 1
  /\ pc' = "zone"
  /\ UNCHANGED <<page, expected_classes, x_bounds, zones, crops>>
  /\ UNCHANGED <<found, kind, output_file, old, changed_any, schedule_all, day_notes_all,
                 sources_out, new_schedule, new_notes, tmp_files, writes, notify_calls, posts, file0>>
  /\ UNCHANGED <<blockVars, unitVars>>

\* parse_pdf returns; main's finally removes the PDF
PdfReturn ==
  /\ pc = "zone"
  /\ z_i >= Len(zones)
  /\ new_schedule' = final_schedule
  /\ new_notes' = DropEmptyDicts(final_notes)
  /\ tmp_files' = tmp_files \ {kind}
  /\ pc' = "main_merge"
  /\ UNCHANGED <<found, kind, output_file, old, changed_any, schedule_all, day_notes_all,
                 sources_out, writes, notify_calls, posts, file0>>
  /\ UNCHANGED <<pdfVars, blockVars, unitVars>>

\* main: parse + merge, the merge
MainMerge ==
  /\ pc = "main_merge"
  /\ schedule_all' = MainMergeSchedule(schedule_all, new_schedule)
  /\ day_notes_all' = MainMergeNotes(day_notes_all, new_notes)
  /\ pc' = "kind_loop"
  /\ UNCHANGED <<found, kind, output_file, old, changed_any, sources_out, new_schedule,
                 new_notes, tmp_files, writes, notify_calls, posts, file0>>
  /\ UNCHANGED <<pdfVars, blockVars, unitVars>>

\* main after the loop writing timetable.json whether or not anything changed
MainFinishAlwaysWrites ==
  /\ pc = "kind_loop"
  /\ found = <<>>
  /\ output_file' = [exists |-> TRUE, parsable |-> TRUE,
                     doc |-> [sources |-> sources_out, schedule |-> schedule_all,
                              day_notes |-> DropEmptyDicts(day_notes_all)]]
  /\ writes' = writes + 1
  /\ pc' = "written"
  /\ UNCHANGED <<found, kind, old, changed_any, schedule_all, day_notes_all, sources_out,
                 new_schedule, new_notes, tmp_files, notify_calls, posts, file0>>
  /\ UNCHANGED <<pdfVars, blockVars, unitVars>>

\* main after the loop: "No detected changes, skipping update." or the write of
\* timetable.json
MainFinish ==
  /\ pc = "kind_loop"
  /\ found = <<>>
  /\ IF ~changed_any /\ output_file.exists
     THEN pc' = "skipped" /\ UNCHANGED <<output_file, writes>>
     ELSE /\ output_file' = [exists |-> TRUE, parsable |-> TRUE,
                             doc |-> [sources |-> sources_out, schedule |-> schedule_all,
                                      day_notes |-> DropEmptyDicts(day_notes_all)]]
          /\ writes' = writes + 1
          /\ pc' = "written"
  /\ UNCHANGED <<found, kind, old, changed_any, schedule_all, day_notes_all, sources_out,
                 new_schedule, new_notes, tmp_files, notify_calls, posts, file0>>
  /\ UNCHANGED <<pdfVars, blockVars, unitVars>>

\* notify_worker: nothing is posted when WORKER_AUTH_KEY is empty; a failure
\* of the request is caught
NotifyWorker ==
  /\ pc = "written"
  /\ notify_calls' = notify_calls + 1
  /\ \E auth_key_set \in BOOLEAN : posts' = IF auth_key_set THEN posts + 1 ELSE posts
  /\ pc' = "done"
  /\ UNCHANGED <<found, kind, output_file, old, changed_any, schedule_all, day_notes_all,
                 sources_out, new_schedule, new_notes, tmp_files, writes, file0>>
  /\ UNCHANGED <<pdfVars, blockVars, unitVars>>

Next ==
  \/ MainStart \/ MainKind \/ PdfFindZones \/ ZoneBegin \/ BlockRow \/ BlockReturn
  \/ ZoneMerge \/ PdfReturn \/ MainMerge \/ MainFinish \/ NotifyWorker

Spec == Init /\ [][Next]_vars

(***************************************************************************)
(* Properties of main and parse_pdf                                        *)
(***************************************************************************)
\* C1: when parse_pdf has returned, the boxes it cropped are in top-to-bottom
\* order, no two of them overlap, and together they cover the interval from the
\* first day label's top to the page height
C1_ZonesDisjointCover ==
  pc = "main_merge" =>
    /\ Len(crops) = Len(zones)
    /\ \A i \in 1..(Len(crops) - 1) :
         /\ crops[i].y_start <= crops[i + 1].y_start
         /\ crops[i].y_end <= crops[i + 1].y_start
         /\ crops[i + 1].y_start <= crops[i].y_end
    /\ crops[1].y_start <= zones[1].top
    /\ Last(crops).y_end = page.height

\* the first occurrences of the elements of a sequence, in order
DedupFirst(s) ==
  LET first == SetToSeq({k \in 1..Len(s) : \A j \in 1..(k - 1) : s[j] # s[k]})
  IN [i \in 1..Len(first) |-> s[first[i]]]

\* C3: every list of parse_day_block and every class/day list of parse_pdf is
\* the entries offered to it so far with each entry kept once, where it first
\* occurred: no duplicates, first-occurrence order, and an entry offered again
\* changes nothing
C3_DedupFirstOccurrence ==
  /\ \A cls \in DOMAIN day_schedule : day_schedule[cls] = DedupFirst(offers[cls])
  /\ \A cls \in DOMAIN final_schedule : \A d \in DOMAIN final_schedule[cls] :
       final_schedule[cls][d] = DedupFirst(merge_offers[<<cls, d>>])

\* a row offered an entry its list already held, and so did a zone merge
C3_Witness ==
  /\ pc = "zone"
  /\ \E cls \in DOMAIN day_schedule : Len(offers[cls]) > Len(day_schedule[cls])
  /\ \E key \in DOMAIN merge_offers :
       /\ key[1] \in DOMAIN final_schedule /\ key[2] \in DOMAIN final_schedule[key[1]]
       /\ Len(final_schedule[key[1]][key[2]]) >= 2
       /\ Len(merge_offers[key]) > Len(final_schedule[key[1]][key[2]])

\* the merge of the results of the zones that did not fail, in page order
Succeeded(zr) == ~zr.failed
RECURSIVE MergedSchedule(_)
MergedSchedule(results) ==
  IF results = <<>> THEN EmptyDict
  ELSE MergeSchedule(MergedSchedule(SubSeq(results, 1, Len(results) - 1)),
                     Last(results).day, Last(results).block)
RECURSIVE MergedNotes(_)
MergedNotes(results) ==
  IF results = <<>> THEN EmptyDict
  ELSE MergeNotes(MergedNotes(SubSeq(results, 1, Len(results) - 1)),
                  Last(results).day, Last(results).notes)

\* C5: a zone with fewer than 5 row boundaries or without a header row gives no
\* entries and no notes and never ends parse_pdf: parse_pdf fails only on a page
\* without zones, visits every zone, and returns the merge of the results of
\* exactly the zones that did not fail
C5_ZoneFailureIsLocal ==
  /\ pc = "raised" => zones = <<>>
  /\ \A i \in 1..Len(zone_results) :
       zone_results[i].failed =>
         zone_results[i].block = EmptyDict /\ zone_results[i].notes = EmptyDict
  /\ pc = "main_merge" =>
       /\ Len(zone_results) = Len(zones)
       /\ new_schedule = MergedSchedule(SelectSeq(zone_results, Succeeded))
       /\ new_notes = DropEmptyDicts(MergedNotes(SelectSeq(zone_results, Succeeded)))

\* parse_pdf returned entries of a zone that follows a failed zone, and of one
\* that a failed zone follows
C5_Witness ==
  /\ pc = "main_merge"
  /\ new_schedule # EmptyDict
  /\ \E i, j, k \in 1..Len(zone_results) :
       /\ i < j /\ j < k
       /\ ~zone_results[i].failed /\ zone_results[i].block # EmptyDict
       /\ zone_results[j].failed
       /\ ~zone_results[k].failed /\ zone_results[k].block # EmptyDict

\* no word of the page is a day label
NoDayLabel(pg) == \A k \in 1..Len(pg.words) : ~InDayMarkers(Upper(pg.words[k].text))

\* C6: on a page without a day label parse_pdf raises instead of returning, the
\* error ends main, and timetable.json is as main found it: nothing is written
\* and notify_worker is not called
C6_MissingDaysKeepsOutput ==
  (page # <<>> /\ pc # "parse_pdf" /\ NoDayLabel(page)) =>
    /\ pc = "raised"
    /\ output_file = file0
    /\ writes = 0 /\ notify_calls = 0 /\ posts = 0

\* main ended on the error with an earlier timetable.json in place, after it
\* had already changed its schedule in memory
C6_Witness ==
  /\ pc = "raised"
  /\ NoDayLabel(page)
  /\ file0.exists /\ file0.parsable
  /\ schedule_all # file0.doc.schedule
  /\ output_file = file0

\* timetable.json was there when main started, every PDF found has been hashed,
\* and the hash of each equals the hash the old state stores for its kind
\* (sources_out holds the old sources, with the hash of every PDF hashed so far)
UnchangedRun ==
  /\ file0.exists
  /\ found = <<>>
  /\ \A k \in DOMAIN sources_out :
       k \in DOMAIN old.sources /\ sources_out[k].pdf_hash = old.sources[k].pdf_hash

\* C11: a run of main that found timetable.json in place and no PDF with a hash
\* other than the one stored for its kind never writes timetable.json and never
\* calls notify_worker, it ends at "No detected changes" (or earlier); in every
\* run notify_worker is called, and a request posted, only after the one write
\* of timetable.json
C11_UnchangedRunSkips ==
  /\ [](UnchangedRun =>
          /\ writes = 0 /\ notify_calls = 0 /\ posts = 0
          /\ output_file = file0
          /\ pc \notin {"written", "done"})
  /\ []((notify_calls > 0 \/ posts > 0) => writes = 1)
  /\ [][(notify_calls' # notify_calls \/ posts' # posts) =>
          (pc = "written" /\ writes = 1 /\ writes' = writes)]_vars

\* main parsed the PDFs it found, none with a new hash, merged a schedule that
\* differs from the stored one, and skipped the update
C11_Witness ==
  /\ pc = "skipped"
  /\ UnchangedRun
  /\ sources_out # EmptyDict
  /\ new_schedule # EmptyDict
  /\ schedule_all # file0.doc.schedule
  /\ output_file = file0

\* C8: a class-to-column mapping is produced only from the full count of 18
\* column boundaries: with fewer the list is interpolated to the full count or
\* the page fails
C8_NeverFewerBounds ==
  (pc \in {"block_rows", "zone_merge"} /\ col_to_class # EmptyDict) =>
    Len(x_bounds) >= WantedBounds

\* C9: when parse_day_block has gone through the rows, for every data row and
\* every mapped column, a subject that equals the row's time-range text or a
\* class token is an entry of no list
C9_BleedDiscarded ==
  (pc = "zone_merge" /\ header_r # None) =>
    \A r \in (header_r + 1)..(Len(grid) - 1) : \A c \in DOMAIN col_to_class :
      LET subj == normalize_subject(Cell(grid, r, c))
          time_out == TimeOut(grid, r)
      IN (IsDataRow(grid, r) /\ subj # <<>>
          /\ (subj = time_out \/ subj \in Range(expected_classes))) =>
           \A cls \in DOMAIN day_schedule : Entry(time_out, subj) \notin Range(day_schedule[cls])

\* a header cell that names several classes jointly: a class token, a comma and
\* more text
IsMergedHeader(cell) ==
  /\ \E k \in 1..Len(cell) : cell[k] = ","
  /\ \E cls \in Range(expected_classes) : HasToken(cell, cls)

\* the columns of the header row whose cell names several classes jointly
MergedColumns ==
  {c \in 1..Min(Len(expected_classes), Len(x_bounds) - 2) :
     IsMergedHeader(Cell(grid, header_r, c))}

\* C10 as stated: the column of a header cell that names several classes
\* jointly has no entry in the column-to-class mapping
C10_MergedHeaderUnmapped ==
  (pc \in {"block_rows", "zone_merge"} /\ header_r # None) =>
    \A c \in MergedColumns : c \notin DOMAIN col_to_class

\* C10: the column of a header cell that names several classes jointly stays
\* mapped, by its position, to the class expected there, and every subject of
\* that column in a data row, unless it is a class token, is an entry of that
\* class's list
C10_MergedHeaderMappedByPosition ==
  (pc = "zone_merge" /\ header_r # None) =>
    \A c \in MergedColumns :
      /\ c \in DOMAIN col_to_class
      /\ col_to_class[c] = expected_classes[c]
      /\ \A r \in (header_r + 1)..(Len(grid) - 1) :
           LET subj == normalize_subject(Cell(grid, r, c))
           IN (IsDataRow(grid, r) /\ subj # <<>> /\ subj \notin Range(expected_classes)) =>
                /\ expected_classes[c] \in DOMAIN day_schedule
                /\ Entry(TimeOut(grid, r), subj) \in Range(day_schedule[expected_classes[c]])

\* the column under "10C, D" gave 10C an entry
C10_Witness ==
  /\ pc = "zone_merge" /\ header_r # None
  /\ \E c \in MergedColumns :
       /\ c \in DOMAIN col_to_class
       /\ \E r \in (header_r + 1)..(Len(grid) - 1) :
            /\ IsDataRow(grid, r)
            /\ normalize_subject(Cell(grid, r, c)) # <<>>
            /\ Entry(TimeOut(grid, r), normalize_subject(Cell(grid, r, c)))
                 \in Range(day_schedule[col_to_class[c]])

(***************************************************************************)
(* cluster_positions on its own, step by step                              *)
(***************************************************************************)
ClusterInit ==
  /\ c_pc = "sort"
  /\ values \in SeqsUpTo(0..MaxCoord, MaxLen)
  /\ tol \in 1..MaxTol
  /\ clusters = <<>> /\ c_i = 0 /\ c_out = <<>>
  /\ MainIdle /\ PdfIdle /\ BlockIdle /\ HeaderIdle /\ MergeIdle

\* values = sorted(values)
ClusterSort ==
  /\ c_pc = "sort"
  /\ values' = Sorted(values)
  /\ c_i' = 1
  /\ c_pc' = "loop"
  /\ UNCHANGED <<tol, clusters, c_out>>
  /\ UNCHANGED <<programVars, headerVars, mergeVars>>

\* one iteration of: for v in values
ClusterStep ==
  /\ c_pc = "loop"
  /\ c_i <= Len(values)
  /\ clusters' = ClusterAdd(clusters, values[c_i], tol)
  /\ c_i' = c_i + 1
  /\ UNCHANGED <<c_pc, values, tol, c_out>>
  /\ UNCHANGED <<programVars, headerVars, mergeVars>>

\* return [sum(c) / len(c) for c in clusters]
ClusterReturn ==
  /\ c_pc = "loop"
  /\ c_i > Len(values)
  /\ c_out' = ClusterMeans(clusters)
  /\ c_pc' = "done"
  /\ UNCHANGED <<values, tol, clusters, c_i>>
  /\ UNCHANGED <<programVars, headerVars, mergeVars>>

ClusterNext == ClusterSort \/ ClusterStep \/ ClusterReturn

SpecCluster == ClusterInit /\ [][ClusterNext]_vars

\* C2: cluster_positions returns a strictly increasing list in which every
\* two adjacent boundaries differ by more than tol
C2_BoundaryMonotone ==
  c_pc = "done" =>
    \A k \in 1..(Len(c_out) - 1) :
      /\ RLt(c_out[k], c_out[k + 1])
      /\ RLt(RAddInt(c_out[k], tol), c_out[k + 1])

\* a run that merged values into a cluster and still returned several boundaries
C2_Witness ==
  /\ c_pc = "done"
  /\ Len(c_out) >= 2
  /\ Len(c_out) < Len(values)
  /\ \E k \in 1..Len(clusters) : Len(clusters[k]) >= 2 /\ clusters[k][1] # Last(clusters[k])

(***************************************************************************)
(* detect_header_row on its own, step by step, over grids of three columns *)
(* (the time column and two more) whose rows hold chosen numbers of class  *)
(* tokens                                                                  *)
(***************************************************************************)
\* Bound: the rows that hold class tokens, below up to 12 rows that hold none
MaxTokenRows == 2

\* the class tokens from..to of expected, separated by spaces
TokenText(expected, from, to) ==
  IF to < from THEN <<>> ELSE Join([k \in 1..(to - from + 1) |-> expected[from + k - 1]], <<" ">>)

\* a row with k distinct class tokens outside column 0, one of them twice, and
\* with every class token in column 0
TokenRow(expected, k) ==
  <<TokenText(expected, 1, Len(expected)),
    IF k = 0 THEN Texts.Orar ELSE TokenText(expected, 1, k \div 2 + 1) \o <<" ">> \o expected[1],
    TokenText(expected, k \div 2 + 2, k)>>

\* the numbers of class tokens of the rows
TokenCounts == {0, 5, 6, 7, 8}

\* the class lists: the 16 classes of a kind, and the first 10 of them
HeaderClassLists == {LICEU_CLASSES, SubSeq(LICEU_CLASSES, 1, 10)}

HeaderInit ==
  /\ h_pc = "loop"
  /\ h_expected \in HeaderClassLists
  /\ \E fill \in 0..HeaderScanRows : \E counts \in SeqsUpTo(TokenCounts, MaxTokenRows) :
       h_grid = [r \in 1..fill |-> TokenRow(h_expected, 0)]
                \o [r \in 1..Len(counts) |-> TokenRow(h_expected, counts[r])]
  /\ h_r = 0 /\ best_r = None /\ best_score = 0 - 1 /\ h_out = None
  /\ ClusterIdle /\ MergeIdle /\ MainIdle /\ PdfIdle /\ BlockIdle

\* one iteration of: for r in range(min(12, len(grid)))
HeaderStep ==
  /\ h_pc = "loop"
  /\ h_r < Min(HeaderScanRows, Len(h_grid))
  /\ LET best == HeaderLoopStep(h_grid, h_r, h_expected, <<best_r, best_score>>)
     IN best_r' = best[1] /\ best_score' = best[2]
  /\ h_r' = h_r + 1
  /\ UNCHANGED <<h_pc, h_grid, h_expected, h_out>>
  /\ UNCHANGED <<programVars, clusterVars, mergeVars>>

\* after the loop: None or best_r
HeaderReturn ==
  /\ h_pc = "loop"
  /\ h_r >= Min(HeaderScanRows, Len(h_grid))
  /\ h_out' = HeaderDecision(h_expected, <<best_r, best_score>>)
  /\ h_pc' = "done"
  /\ UNCHANGED <<h_grid, h_expected, h_r, best_r, best_score>>
  /\ UNCHANGED <<programVars, clusterVars, mergeVars>>

HeaderNext == HeaderStep \/ HeaderReturn

SpecHeader == HeaderInit /\ [][HeaderNext]_vars

\* the distinct expected class tokens in the cells of a row outside column 0
ClassTokenCount(row, expected) ==
  Cardinality({cls \in Range(expected) : \E c \in 2..Len(row) : HasToken(row[c], cls)})

\* the minimum: max(6, half the expected class count)
HeaderMinimum(expected) == Max(HeaderFloor, Len(expected) \div 2)

\* C7: the row detect_header_row returns is one of the first 12 rows and holds
\* at least the minimum of distinct expected class tokens outside column 0; a
\* best row below the minimum is not returned, None is
C7_HeaderNeedsMinimum ==
  h_pc = "done" =>
    /\ h_out # None =>
         /\ h_out \in 0..(Min(HeaderScanRows, Len(h_grid)) - 1)
         /\ ClassTokenCount(h_grid[h_out + 1], h_expected) >= HeaderMinimum(h_expected)
    /\ (best_r # None /\ ClassTokenCount(h_grid[best_r + 1], h_expected) < HeaderMinimum(h_expected))
         => h_out = None

\* the row with the most class tokens had some, at least the floor of 6, and
\* was still refused
C7_Witness ==
  /\ h_pc = "done"
  /\ h_out = None
  /\ best_r # None
  /\ best_score >= HeaderFloor
  /\ best_score < HeaderMinimum(h_expected)

(***************************************************************************)
(* The merges on their own: partial results merged in any order, zone by   *)
(* zone as in parse_pdf or document by document as in main                 *)
(***************************************************************************)
\* Bound: the partial results merged
MaxPartials == 3


\* partial results: what parse_day_block returned for a zone, with the zone's day
PartialPool ==
  LET E_8_Math == Entry(Texts.slot8, Texts.Math)
      E_9_Info == Entry(Texts.slot9, Texts.Info)
      E_8_Sport == Entry(Texts.slot8, Texts.Sport)
      N_lab_bio == Strip(Texts.lab_bio)
      N_lab == SubSeq(N_lab_bio, 1, 3)
      N_cab_3 == Strip(Texts.cab_3)
  IN
  <<[day |-> "Luni", block |-> (LICEU_CLASSES[1] :> <<E_8_Math, E_9_Info>>),
     notes |-> (LICEU_CLASSES[1] :> N_lab_bio)],
    [day |-> "Luni", block |-> (LICEU_CLASSES[1] :> <<E_9_Info, E_8_Sport>>),
     notes |-> (LICEU_CLASSES[1] :> N_lab)],
    [day |-> "Luni", block |-> (LICEU_CLASSES[1] :> <<E_8_Sport>>) @@ (LICEU_CLASSES[2] :> <<E_8_Math>>),
     notes |-> (LICEU_CLASSES[2] :> N_cab_3)],
    [day |-> "Marti", block |-> (LICEU_CLASSES[1] :> <<E_8_Math>>),
     notes |-> (LICEU_CLASSES[1] :> N_cab_3)],
    [day |-> "Luni", block |-> (LICEU_CLASSES[2] :> <<E_9_Info>>), notes |-> EmptyDict]>>

\* what parse_pdf returns for a page with the one zone of a partial result
AsDocument(P) ==
  [schedule |-> MergeSchedule(EmptyDict, P.day, P.block),
   notes |-> DropEmptyDicts(MergeNotes(EmptyDict, P.day, P.notes))]

MergeInit ==
  /\ m_pc = "merge"
  /\ m_level \in {"zone", "document"}
  /\ \E chosen \in {S \in SUBSET (1..Len(PartialPool)) : Cardinality(S) <= MaxPartials} :
       partials = [k \in 1..Cardinality(chosen) |-> PartialPool[SetToSeq(chosen)[k]]]
  /\ m_left = 1..Len(partials)
  /\ m_order = <<>>
  /\ m_schedule = EmptyDict /\ m_notes = EmptyDict
  /\ ClusterIdle /\ HeaderIdle /\ MainIdle /\ PdfIdle /\ BlockIdle

\* the merge of one more partial result, any of those left
MergePick ==
  /\ m_pc = "merge"
  /\ \E i \in m_left :
       /\ m_left' = m_left \ {i}
       /\ m_order' = Append(m_order, i)
       /\ IF m_level = "zone"
          THEN /\ m_schedule' = MergeSchedule(m_schedule, partials[i].day, partials[i].block)
               /\ m_notes' = MergeNotes(m_notes, partials[i].day, partials[i].notes)
          ELSE /\ m_schedule' = MainMergeSchedule(m_schedule, AsDocument(partials[i]).schedule)
               /\ m_notes' = MainMergeNotes(m_notes, AsDocument(partials[i]).notes)
  /\ UNCHANGED <<m_pc, m_level, partials>>
  /\ UNCHANGED <<programVars, clusterVars, headerVars>>

\* every partial result is merged
MergeDone ==
  /\ m_pc = "merge"
  /\ m_left = {}
  /\ m_pc' = "done"
  /\ UNCHANGED <<m_level, partials, m_left, m_order, m_schedule, m_notes>>
  /\ UNCHANGED <<programVars, clusterVars, headerVars>>

MergeNext == MergePick \/ MergeDone

SpecMerge == MergeInit /\ [][MergeNext]_vars

\* C4 as stated: whatever the order of the merges, the schedule and the notes
\* are those that the merges in the order of the partial results give
C4_MergeOrderIrrelevant ==
  m_pc = "done" =>
    /\ m_schedule = MergedSchedule(partials)
    /\ m_notes = MergedNotes(partials)

\* the class/day pairs of a dict of dicts
KeysOf(d) == UNION {{<<cls, day>> : day \in DOMAIN d[cls]} : cls \in DOMAIN d}

\* the partial results that hold entries, or a note, for a class and day
WithEntries(cls, day) == {k \in 1..Len(partials) : partials[k].day = day /\ cls \in DOMAIN partials[k].block}
WithNote(cls, day) == {k \in 1..Len(partials) : partials[k].day = day /\ cls \in DOMAIN partials[k].notes}

\* the class/day pairs of the partial results' entries, and of their notes
PartialKeys ==
  UNION {{<<cls, partials[k].day>> : cls \in DOMAIN partials[k].block} : k \in 1..Len(partials)}
PartialNoteKeys ==
  UNION {{<<cls, partials[k].day>> : cls \in DOMAIN partials[k].notes} : k \in 1..Len(partials)}

\* no class and day has entries, or a note, in two partial results
PartialsDisjoint ==
  \A k \in 1..Len(partials) :
    /\ \A cls \in DOMAIN partials[k].block : WithEntries(cls, partials[k].day) = {k}
    /\ \A cls \in DOMAIN partials[k].notes : WithNote(cls, partials[k].day) = {k}

\* C4: whatever the order of the merges, each class/day list holds, once each,
\* exactly the entries of the partial lists for that class and day, and each
\* class/day note contains every partial note for that class and day; when no
\* class and day occurs in two partial results, the schedule and the notes are
\* the same for every order
C4_MergeOrderUpToSequence ==
  m_pc = "done" =>
    /\ KeysOf(m_schedule) = PartialKeys
    /\ \A key \in KeysOf(m_schedule) :
         LET list == m_schedule[key[1]][key[2]]
         IN /\ Range(list) = UNION {Range(partials[k].block[key[1]]) : k \in WithEntries(key[1], key[2])}
            /\ Cardinality(Range(list)) = Len(list)
    /\ KeysOf(m_notes) = PartialNoteKeys
    /\ \A k \in 1..Len(partials) : \A cls \in DOMAIN partials[k].notes :
         IsSubstring(partials[k].notes[cls], m_notes[cls][partials[k].day])
    /\ PartialsDisjoint =>
         /\ m_schedule = MergedSchedule(partials)
         /\ m_notes = MergedNotes(partials)

\* three partial results merged in an order that gave another schedule and other
\* notes than their own order gives
C4_Witness ==
  /\ m_pc = "done"
  /\ Len(partials) = MaxPartials
  /\ m_schedule # MergedSchedule(partials)
  /\ m_notes # MergedNotes(partials)

====
